---- MODULE Spec2Model ----
(***************************************************************************)
(* Optimistic-concurrency synchronisation of ShippingSchedule.             *)
(*                                                                         *)
(* Server side (ShippingServer/main.py, models.py): the shipments table,   *)
(* the audit_logs table, the connection manager and the three mutating     *)
(* request handlers.  A handler is a sequence of SQL statements against    *)
(* the one PostgreSQL store (database.py); the steps of the model are      *)
(* those statements, so requests served by different sessions interleave   *)
(* between a handler's SELECT and its commit, as READ COMMITTED allows.    *)
(*                                                                         *)
(* Client side (ShippingClient/ui/main_window.py): the inline cell edit    *)
(* and the status change, each with its conflict resolution.               *)
(***************************************************************************)
EXTENDS Integers, Sequences, FiniteSets, TLC

VARIABLES
    shipments,           \* id -> row of table "shipments", or NoRow
    next_id,             \* next value of the primary-key sequence
    audit_logs,          \* table "audit_logs", in insertion order
    active_connections,  \* ConnectionManager.active_connections
    closed,              \* the sessions whose WebSocket has closed
    inbox,               \* session -> the messages written to its channel, each
                         \* with the place of its mutation in the commit order
    req,                 \* request slot -> the handler's frame; its last three
                         \* fields are history: checked, the row's committed
                         \* count when its version was read; changed, whether
                         \* the request changed table shipments; logged, the
                         \* audit entries it inserted; seq, the place of its
                         \* audit entry in the log
    returned,            \* id -> update requests that returned 200 with changes
    committed,           \* id -> mutations of the row committed so far
    cl,                  \* client -> the main window's frame
    ws                   \* client -> its WebSocketClient thread and ShipmentLoader

vars == <<shipments, next_id, audit_logs, active_connections, closed, inbox, req,
          returned, committed, cl, ws>>

store == <<shipments, next_id, audit_logs>>

(***************************************************************************)
(* Bounds of the model.                                                    *)
(***************************************************************************)
NumReq == 2

Reqs == 1..NumReq
Ids == 1..(NumReq + 1)
TargetIds == {1, 2}
Versions == {1, 2}
Sessions == {1}
Viewers == {1, 2}

(***************************************************************************)
(* Users and their roles (models.py User.role).                            *)
(***************************************************************************)
Users == {1, 2, 3}

role == [u \in Users |-> CASE u = 1 -> "admin" [] u = 2 -> "write" [] OTHER -> "read"]

Reader == 3

\* caller r is logged in as the admin or as the writer
LoginOf(r) == IF r % 2 = 1 THEN 1 ELSE 2

\* any user with a valid token, as the read endpoints require
Authenticated(u) == u \in Users

\* if current_user.role not in ["write", "admin"]: raise HTTPException(403)
CanWrite(u) == role[u] \in {"write", "admin"}

NoRow == [none |-> TRUE]

(***************************************************************************)
(* Text.  A job number is a sequence of characters, so that strip, split,  *)
(* startswith, isdigit, int and str are computed as Python computes them.  *)
(* The other columns are atomic strings; trim is str.strip on the padded   *)
(* literals the model feeds in.                                            *)
(***************************************************************************)
Digits == {"0", "1", "2", "3", "4", "5", "6", "7", "8", "9"}

DigitVal(c) ==
    CASE c = "0" -> 0 [] c = "1" -> 1 [] c = "2" -> 2 [] c = "3" -> 3
      [] c = "4" -> 4 [] c = "5" -> 5 [] c = "6" -> 6 [] c = "7" -> 7
      [] c = "8" -> 8 [] OTHER -> 9

DigitChar(n) ==
    CASE n = 0 -> "0" [] n = 1 -> "1" [] n = 2 -> "2" [] n = 3 -> "3"
      [] n = 4 -> "4" [] n = 5 -> "5" [] n = 6 -> "6" [] n = 7 -> "7"
      [] n = 8 -> "8" [] OTHER -> "9"

RECURSIVE lstrip(_)
lstrip(s) == IF s # <<>> /\ Head(s) = " " THEN lstrip(Tail(s)) ELSE s

RECURSIVE rstrip(_)
rstrip(s) ==
    IF s # <<>> /\ s[Len(s)] = " " THEN rstrip(SubSeq(s, 1, Len(s) - 1)) ELSE s

strip(s) == rstrip(lstrip(s))

\* value.split('.')[0]
RECURSIVE split_dot_0(_)
split_dot_0(s) ==
    IF s = <<>> \/ Head(s) = "." THEN <<>> ELSE <<Head(s)>> \o split_dot_0(Tail(s))

isdigit(s) == s # <<>> /\ \A i \in 1..Len(s) : s[i] \in Digits

startswith(s, p) == Len(p) <= Len(s) /\ SubSeq(s, 1, Len(p)) = p

\* PostgreSQL's LIKE without an ESCAPE clause: % matches any run of
\* characters, _ any one character, a backslash takes the next character of
\* the pattern literally
RECURSIVE like(_, _)
like(s, p) ==
    IF p = <<>> THEN s = <<>>
    ELSE IF Head(p) = "%" THEN like(s, Tail(p)) \/ (s # <<>> /\ like(Tail(s), p))
    ELSE IF Head(p) = "_" THEN s # <<>> /\ like(Tail(s), Tail(p))
    ELSE IF Head(p) = "\\"
    THEN Len(p) >= 2 /\ s # <<>> /\ Head(s) = p[2] /\ like(Tail(s), Tail(Tail(p)))
    ELSE s # <<>> /\ Head(s) = Head(p) /\ like(Tail(s), Tail(p))

RECURSIVE int(_)
int(s) ==
    IF s = <<>> THEN 0 ELSE 10 * int(SubSeq(s, 1, Len(s) - 1)) + DigitVal(s[Len(s)])

RECURSIVE str(_)
str(n) == IF n < 10 THEN <<DigitChar(n)>> ELSE str(n \div 10) \o <<DigitChar(n % 10)>>

Max(S) == CHOOSE m \in S : \A x \in S : x <= m

trim(v) == CASE v = " " -> "" [] v = " rejected " -> "rejected" [] OTHER -> v

(***************************************************************************)
(* Column validators of Shipment.  Each yields the value stored, or a      *)
(* ValueError.                                                             *)
(***************************************************************************)
Ok(v) == [ok |-> TRUE, value |-> v]
ValueError == [ok |-> FALSE, value |-> "ValueError"]

MaxJobDigits == 15

validate_job_number(value) ==
    IF value = <<>> \/ strip(value) = <<>> THEN ValueError
    ELSE LET cleaned == strip(value)
             base_number == split_dot_0(cleaned)
         IN  IF ~isdigit(base_number) THEN ValueError
             ELSE IF Len(base_number) > MaxJobDigits THEN ValueError
             ELSE Ok(cleaned)

valid_statuses == {"final_release", "partial_release", "rejected", "prod_updated"}

validate_status(value) ==
    LET cleaned == trim(value)
    IN  IF cleaned = "" THEN Ok("")
        ELSE IF cleaned \notin valid_statuses THEN ValueError
        ELSE Ok(cleaned)

\* the values of the model that re.match(r'^[a-zA-Z0-9\-\.]*$') refuses
BadInvoiceChars == {"INV#1"}

validate_invoice_number(value) ==
    IF value = "" THEN Ok("")
    ELSE LET cleaned == trim(value)
         IN  IF cleaned \in BadInvoiceChars THEN ValueError ELSE Ok(cleaned)

validate(field, value) ==
    IF field = "status" THEN validate_status(value) ELSE validate_invoice_number(value)

(***************************************************************************)
(* Identifier allocation.                                                  *)
(***************************************************************************)
StoredIds(rows) == {i \in DOMAIN rows : rows[i] # NoRow}

JobNumbers(rows) == {rows[i].job_number : i \in StoredIds(rows)}

generate_unique_job_number(base_job_number, rows) ==
    LET existing_numbers ==
            {n \in JobNumbers(rows) : like(n, base_job_number \o <<"%">>)}
        dotted == base_job_number \o <<".">>
        suffixes ==
            {0} \cup {int(SubSeq(n, Len(dotted) + 1, Len(n))) :
                        n \in {m \in existing_numbers :
                                 /\ startswith(m, dotted)
                                 /\ isdigit(SubSeq(m, Len(dotted) + 1, Len(m)))}}
    IN  IF base_job_number \notin existing_numbers THEN base_job_number
        ELSE dotted \o str(Max(suffixes) + 1)

(***************************************************************************)
(* Rows, request payloads and handler frames.                              *)
(***************************************************************************)
Fields == {"status", "invoice_number"}

Unset == "<unset>"

NoData == [job_number |-> <<>>, status |-> "", invoice_number |-> ""]

Idle ==
    [pc |-> "idle", kind |-> "", user |-> 1, id |-> 1, ver |-> 1,
     delta |-> [status |-> Unset, invoice_number |-> Unset], job |-> <<>>,
     loaded |-> NoRow, pending |-> NoRow, changes |-> {}, code |-> 0,
     cand |-> <<>>, todo |-> <<>>, event |-> [type |-> ""],
     checked |-> 0, changed |-> FALSE, logged |-> 0, seq |-> 0,
     body |-> [detail |-> <<>>]]

\* ShipmentCreate: job_number as sent; status defaults to partial_release
JobInputs == {<<"7">>, <<"7", " ">>, <<"x">>}
CreateStatus == "partial_release"

\* ShipmentUpdate with exclude_unset: the fields the request names
Deltas ==
    {[status |-> "final_release", invoice_number |-> Unset],
     [status |-> Unset, invoice_number |-> "INV-100"],
     [status |-> "partial_release", invoice_number |-> "INV-100"],
     [status |-> "bogus", invoice_number |-> Unset]}

ReaderDelta == [status |-> "final_release", invoice_number |-> Unset]

FirstJob == <<"7">>

Remove(list, x) == SelectSeq(list, LAMBDA y : y # x)

InList(list, x) == \E i \in 1..Len(list) : list[i] = x

(***************************************************************************)
(* update_shipment, computed on the row its SELECT returned.               *)
(***************************************************************************)
\* the same query without its version criterion
FilterById(row, current_version) == TRUE

\* .filter(Shipment.id == shipment_id, Shipment.version == current_version)
VersionFilter(row, current_version) == row.version = current_version

Named(delta) == {f \in Fields : delta[f] # Unset}

\* the fields whose sent value differs from the loaded one
Differing(row, delta) == {f \in Named(delta) : row[f] # delta[f]}

changes_made(row, delta) ==
    {[field |-> f, old |-> row[f], new |-> delta[f]] : f \in Differing(row, delta)}

\* setattr runs the column validator of every differing field
Rejected(row, delta) == \E f \in Differing(row, delta) : ~validate(f, delta[f]).ok

SetAttrs(row, delta) ==
    [c \in DOMAIN row |->
        IF c \in Differing(row, delta) THEN validate(c, delta[c]).value ELSE row[c]]

\* shipment.version += 1; shipment.last_modified_by = current_user.id
Stamp(row, user) == [row EXCEPT !.version = @ + 1, !.last_modified_by = user]

\* The unit of work writes the attributes the handler modified, WHERE id = :id.
Flush(current, loaded, pending) ==
    [c \in DOMAIN current |-> IF pending[c] # loaded[c] THEN pending[c] ELSE current[c]]

\* an entry written over the rows of the same record
Overwritten(logs, entry) ==
    SelectSeq(logs, LAMBDA e : e.record_id # entry.record_id) \o <<entry>>

\* db.add(log): an INSERT into audit_logs
add_log(logs, entry) == Append(logs, entry)

AuditLog(user, action, record_id, changes, data) ==
    [user_id |-> user, action |-> action, record_id |-> record_id,
     changes |-> changes, data |-> data]

Backup(row) ==
    [job_number |-> row.job_number, status |-> row.status,
     invoice_number |-> row.invoice_number]

\* the JSON message of a broadcast; version 0 where the message carries none
Event(type, id, job_number, version, changes, user) ==
    [type |-> type, id |-> id, job_number |-> job_number,
     version |-> version, changes |-> changes, action_by |-> user]

\* Shipment(**shipment_data, created_by=..., last_modified_by=..., version=1)
NewShipment(job_number, status, user) ==
    [job_number |-> validate_job_number(job_number).value,
     status |-> validate_status(status).value,
     invoice_number |-> "", version |-> 1,
     created_by |-> user, last_modified_by |-> user]

(***************************************************************************)
(* Initial state: the first shipment has been created by user 1 (row 1 at  *)
(* version 1 and its audit entry); no connection, no request in flight.    *)
(***************************************************************************)
NoClient == [pc |-> "off"]

\* WebSocketClient before run() and no ShipmentLoader started:
\* connected, the state the status indicator shows, and the loader thread;
\* last is history: what the window did with the last change event
NoSocket == [connected |-> FALSE, loader |-> "idle", last |-> ""]

InitStore ==
    /\ shipments = [i \in Ids |-> IF i = 1 THEN NewShipment(FirstJob, CreateStatus, 1)
                                  ELSE NoRow]
    /\ next_id = 2
    /\ audit_logs = <<AuditLog(1, "create", 1, {},
                              [job_number |-> FirstJob, status |-> CreateStatus,
                               invoice_number |-> ""])>>

Init ==
    /\ InitStore
    /\ active_connections = <<>>
    /\ closed = {}
    /\ inbox = [s \in Viewers |-> <<>>]
    /\ req = [r \in Reqs |-> Idle]
    /\ returned = [i \in Ids |-> 0]
    /\ committed = [i \in Ids |-> 0]
    /\ cl = [c \in Reqs |-> NoClient]
    /\ ws = [c \in Reqs |-> NoSocket]

(***************************************************************************)
(* The end of a handler: the response is in the frame until it is read.    *)
(***************************************************************************)
Respond(f, code) == [f EXCEPT !.pc = "done", !.code = code]

\* update requests that returned success having changed the row
Returned(f, code) ==
    IF f.kind = "update" /\ code = 200 /\ f.changes # {}
    THEN [returned EXCEPT ![f.id] = @ + 1] ELSE returned

\* after the commit: manager.broadcast copies the list, then the sends run
StartBroadcast(f, ev) ==
    IF active_connections = <<>>
    THEN Respond([f EXCEPT !.event = ev], 200)
    ELSE [f EXCEPT !.pc = "send", !.event = ev, !.todo = active_connections]

(***************************************************************************)
(* A caller submits a request.  Each slot carries one request; the slots   *)
(* are taken in order.                                                     *)
(***************************************************************************)
InOrder(r) == IF r = 1 THEN TRUE ELSE req[r - 1].pc # "idle"

SubmitCreate(r) ==
    /\ req[r].pc = "idle" /\ InOrder(r)
    /\ \E u \in {LoginOf(r)}, j \in JobInputs :
         req' = [req EXCEPT ![r] =
                   [Idle EXCEPT !.pc = "begin", !.kind = "create", !.user = u, !.job = j]]
    /\ UNCHANGED <<store, active_connections, closed, inbox, returned, committed, cl, ws>>

SubmitUpdate(r) ==
    /\ req[r].pc = "idle" /\ InOrder(r)
    /\ \E u \in {LoginOf(r)}, i \in TargetIds, v \in Versions, d \in Deltas :
         req' = [req EXCEPT ![r] =
                   [Idle EXCEPT !.pc = "begin", !.kind = "update", !.user = u,
                                !.id = i, !.ver = v, !.delta = d]]
    /\ UNCHANGED <<store, active_connections, closed, inbox, returned, committed, cl, ws>>

SubmitDelete(r) ==
    /\ req[r].pc = "idle" /\ InOrder(r)
    /\ \E u \in {LoginOf(r)}, i \in TargetIds :
         req' = [req EXCEPT ![r] =
                   [Idle EXCEPT !.pc = "begin", !.kind = "delete", !.user = u, !.id = i]]
    /\ UNCHANGED <<store, active_connections, closed, inbox, returned, committed, cl, ws>>

\* a request of a user whose role is read: one of each kind
SubmitReader(r) ==
    /\ req[r].pc = "idle" /\ InOrder(r)
    /\ \E k \in {"create", "update", "delete"} :
         req' = [req EXCEPT ![r] =
                   [Idle EXCEPT !.pc = "begin", !.kind = k, !.user = Reader,
                                !.job = FirstJob, !.delta = ReaderDelta]]
    /\ UNCHANGED <<store, active_connections, closed, inbox, returned, committed, cl, ws>>

(***************************************************************************)
(* PUT /shipments/{id}?current_version=v                                   *)
(***************************************************************************)
\* if not shipment: the query on id and version returned nothing
Missed(row, current_version) ==
    IF row = NoRow THEN TRUE ELSE ~VersionFilter(row, current_version)

\* a miss always taken for an unknown id
AnyMiss(row) == TRUE

\* existing = db.query(Shipment).filter(Shipment.id == shipment_id).first()
\* if not existing: 404
NoSuchId(row) == row = NoRow

\* HTTPException(status_code=409, detail=f"... Current version: {existing.version}")
ConflictDetail(existing) ==
    [detail |-> <<"Shipment was modified by another user. Current version: ",
                  existing.version>>]

UpdateResult(f, row) ==
    IF ~CanWrite(f.user) THEN Respond(f, 403)
    ELSE IF Missed(row, f.ver)
    THEN (IF NoSuchId(row) THEN Respond(f, 404)
          ELSE Respond([f EXCEPT !.body = ConflictDetail(row)], 409))
    ELSE IF Rejected(row, f.delta) THEN Respond(f, 400)
    ELSE IF changes_made(row, f.delta) = {} THEN Respond([f EXCEPT !.loaded = row], 200)
    ELSE [f EXCEPT !.pc = "commit", !.loaded = row,
                   !.changes = changes_made(row, f.delta),
                   !.pending = Stamp(SetAttrs(row, f.delta), f.user)]

UpdateBegin(r) ==
    /\ req[r].pc = "begin" /\ req[r].kind = "update"
    /\ req' = [req EXCEPT ![r] =
                 [UpdateResult(req[r], shipments[req[r].id])
                    EXCEPT !.checked = committed[req[r].id]]]
    /\ returned' = returned
    /\ UNCHANGED <<store, active_connections, closed, inbox, committed, cl, ws>>

UpdateCommit(r) ==
    LET f == req[r] IN
    /\ f.pc = "commit" /\ f.kind = "update"
    /\ IF shipments[f.id] = NoRow
       THEN \* the UPDATE matches no row: StaleDataError, rolled back
            /\ req' = [req EXCEPT ![r] = Respond(f, 500)]
            /\ UNCHANGED <<store, committed>>
       ELSE /\ shipments' = [shipments EXCEPT ![f.id] = Flush(@, f.loaded, f.pending)]
            /\ audit_logs' = add_log(audit_logs,
                                 AuditLog(f.user, "update", f.id, f.changes, NoData))
            /\ committed' = [committed EXCEPT ![f.id] = @ + 1]
            /\ req' = [req EXCEPT ![r] =
                         [f EXCEPT !.pc = "refresh", !.changed = TRUE, !.logged = @ + 1,
                                   !.seq = Len(audit_logs) + 1]]
            /\ next_id' = next_id
    /\ UNCHANGED <<active_connections, closed, inbox, returned, cl, ws>>

\* db.refresh(...) after the commit, then the broadcast of what it read
Refresh(r) ==
    LET f == req[r]
        row == shipments[f.id]
        ev == IF f.kind = "update"
              THEN Event("shipment_updated", f.id, row.job_number, row.version,
                         f.changes, f.user)
              ELSE Event("shipment_created", f.id, row.job_number, 0, {}, f.user)
        g == IF row = NoRow THEN Respond(f, 500)
             ELSE StartBroadcast([f EXCEPT !.loaded = row], ev)
    IN
    /\ f.pc = "refresh"
    /\ req' = [req EXCEPT ![r] = g]
    /\ returned' = IF g.pc = "done" THEN Returned(f, g.code) ELSE returned
    /\ UNCHANGED <<store, active_connections, closed, inbox, committed, cl, ws>>

(***************************************************************************)
(* ConnectionManager                                                       *)
(***************************************************************************)
connect(list, s) == Append(list, s)

\* the list left as it is
Kept(list, s) == list

disconnect(list, s) == IF InList(list, s) THEN Remove(list, s) ELSE list

\* the loop of broadcast after one iteration: the next session, or the end
Sent(f) ==
    IF Len(f.todo) = 1 THEN Respond([f EXCEPT !.todo = <<>>], 200)
    ELSE [f EXCEPT !.todo = Tail(@)]

\* the exception of a failed write leaves broadcast and the handler
Raised(f) == Respond([f EXCEPT !.todo = <<>>], 500)

\* except: self.disconnect(connection) -- the loop goes on
Caught(f) == Sent(f)

\* one iteration of broadcast's loop over its copy of the list
BroadcastSend(r) ==
    LET f == req[r]
        s == Head(f.todo)
    IN
    /\ f.pc = "send"
    /\ \/ /\ InList(active_connections, s)       \* send_text succeeds
          /\ inbox' = [inbox EXCEPT ![s] = Append(@, [seq |-> f.seq, msg |-> f.event])]
          /\ req' = [req EXCEPT ![r] = Sent(f)]
          /\ UNCHANGED <<active_connections, closed>>
       \/ /\ active_connections' = disconnect(active_connections, s)
          /\ closed' = closed \cup {s}
          /\ req' = [req EXCEPT ![r] = Caught(f)]
          /\ UNCHANGED inbox
    /\ returned' = IF req'[r].pc = "done" THEN Returned(f, req'[r].code) ELSE returned
    /\ UNCHANGED <<store, committed, cl, ws>>

\* websocket_endpoint: a viewer connects
WsConnect(s) ==
    /\ ~InList(active_connections, s) /\ s \notin closed
    /\ active_connections' = connect(active_connections, s)
    /\ closed' = closed
    /\ UNCHANGED <<store, inbox, req, returned, committed, cl, ws>>

\* websocket_endpoint: WebSocketDisconnect
WsDisconnect(s) ==
    /\ InList(active_connections, s)
    /\ active_connections' = disconnect(active_connections, s)
    /\ closed' = closed \cup {s}
    /\ UNCHANGED <<store, inbox, req, returned, committed, cl, ws>>

(***************************************************************************)
(* POST /shipments                                                         *)
(***************************************************************************)
CreateBegin(r) ==
    LET f == req[r]
        unique_job_number == generate_unique_job_number(f.job, shipments)
    IN
    /\ f.pc = "begin" /\ f.kind = "create"
    /\ IF ~CanWrite(f.user)
       THEN /\ req' = [req EXCEPT ![r] = Respond(f, 403)]
            /\ UNCHANGED next_id
       ELSE IF ~validate_job_number(unique_job_number).ok
                 \/ ~validate_status(CreateStatus).ok
       THEN \* the HTTPException(400) is caught by "except Exception"
            /\ req' = [req EXCEPT ![r] = Respond(f, 500)]
            /\ UNCHANGED next_id
       ELSE \* db.add, db.flush: the INSERT takes the next id
            /\ req' = [req EXCEPT ![r] =
                 [f EXCEPT !.pc = "commit", !.id = next_id, !.cand = unique_job_number,
                    !.pending = NewShipment(unique_job_number, CreateStatus, f.user)]]
            /\ next_id' = next_id + 1
    /\ UNCHANGED <<shipments, audit_logs, active_connections, closed, inbox,
                   returned, committed, cl, ws>>

CreateCommit(r) ==
    LET f == req[r] IN
    /\ f.pc = "commit" /\ f.kind = "create"
    /\ shipments' = [shipments EXCEPT ![f.id] = f.pending]
    /\ audit_logs' = add_log(audit_logs,
                        AuditLog(f.user, "create", f.id, {},
                                 [job_number |-> f.cand, status |-> CreateStatus,
                                  invoice_number |-> ""]))
    /\ req' = [req EXCEPT ![r] =
                 [f EXCEPT !.pc = "refresh", !.changed = TRUE, !.logged = @ + 1,
                           !.seq = Len(audit_logs) + 1]]
    /\ UNCHANGED <<next_id, active_connections, closed, inbox, returned, committed, cl, ws>>

(***************************************************************************)
(* DELETE /shipments/{id}                                                  *)
(***************************************************************************)
DeleteBegin(r) ==
    LET f == req[r]
        row == shipments[f.id]
    IN
    /\ f.pc = "begin" /\ f.kind = "delete"
    /\ req' = [req EXCEPT ![r] =
                 IF ~CanWrite(f.user) THEN Respond(f, 403)
                 ELSE IF row = NoRow THEN Respond(f, 404)
                 ELSE [f EXCEPT !.pc = "delrow", !.loaded = row]]
    /\ UNCHANGED <<store, active_connections, closed, inbox, returned, committed, cl, ws>>

\* db.delete(shipment); db.commit()  -- a DELETE that matches no row only warns
DeleteRow(r) ==
    LET f == req[r] IN
    /\ f.pc = "delrow"
    /\ shipments' = [shipments EXCEPT ![f.id] = NoRow]
    /\ committed' = IF shipments[f.id] = NoRow THEN committed
                    ELSE [committed EXCEPT ![f.id] = @ + 1]
    /\ req' = [req EXCEPT ![r] =
                 [f EXCEPT !.pc = "delaudit", !.changed = shipments[f.id] # NoRow]]
    /\ UNCHANGED <<next_id, audit_logs, active_connections, closed, inbox, returned, cl, ws>>

\* db.add(log); db.commit(); then the broadcast
DeleteAudit(r) ==
    LET f == req[r] IN
    /\ f.pc = "delaudit"
    /\ audit_logs' = add_log(audit_logs,
                        AuditLog(f.user, "delete", f.id, {}, Backup(f.loaded)))
    /\ req' = [req EXCEPT ![r] =
                 StartBroadcast([f EXCEPT !.logged = @ + 1,
                                          !.seq = Len(audit_logs) + 1],
                                Event("shipment_deleted", f.id,
                                      f.loaded.job_number, 0, {}, f.user))]
    /\ UNCHANGED <<shipments, next_id, active_connections, closed, inbox,
                   returned, committed, cl, ws>>

\* a statement or commit fails at the storage layer (SQLAlchemyError)
StorageError(r) ==
    /\ req[r].pc \in {"commit", "delrow", "delaudit"}
    /\ req' = [req EXCEPT ![r] = Respond(@, 500)]
    /\ UNCHANGED <<store, active_connections, closed, inbox, returned, committed, cl, ws>>

(***************************************************************************)
(* The server under arbitrary callers.                                     *)
(***************************************************************************)
Serve(r) ==
    \/ UpdateBegin(r) \/ UpdateCommit(r) \/ Refresh(r) \/ BroadcastSend(r)
    \/ CreateBegin(r) \/ CreateCommit(r)
    \/ DeleteBegin(r) \/ DeleteRow(r) \/ DeleteAudit(r)
    \/ StorageError(r)

Next ==
    \/ \E r \in Reqs : SubmitCreate(r) \/ SubmitUpdate(r) \/ SubmitDelete(r)
                       \/ SubmitReader(r)
    \/ \E r \in Reqs : Serve(r)
    \/ \E s \in Sessions : WsConnect(s) \/ WsDisconnect(s)

Spec == Init /\ [][Next]_vars

(***************************************************************************)
(* The same server with two viewers on the websocket; a viewer that goes   *)
(* away is noticed by the write that fails.                                *)
(***************************************************************************)
\* the requests of the writers: two updates of record 1 sent with version 1
\* (one of them with an invalid status), a create and a delete of record 1
Writes ==
    {[Idle EXCEPT !.kind = "update", !.delta = d] :
        d \in {x \in Deltas : x.invoice_number = Unset}}
    \cup {[Idle EXCEPT !.kind = "create", !.job = FirstJob],
          [Idle EXCEPT !.kind = "delete"]}

SubmitWrite(r) ==
    /\ req[r].pc = "idle" /\ InOrder(r)
    /\ \E w \in Writes :
         req' = [req EXCEPT ![r] = [w EXCEPT !.pc = "begin", !.user = LoginOf(r)]]
    /\ UNCHANGED <<store, active_connections, closed, inbox, returned, committed, cl, ws>>

NextFanout ==
    \/ \E r \in Reqs : SubmitWrite(r)
    \/ \E r \in Reqs : Serve(r)
    \/ \E s \in Viewers : WsConnect(s)

SpecFanout == Init /\ [][NextFanout]_vars

(***************************************************************************)
(* The same server under writers whose status values come padded with      *)
(* blanks, as a client that does not clean its input sends them.            *)
(***************************************************************************)
PaddedDeltas ==
    {[status |-> " rejected ", invoice_number |-> Unset],
     [status |-> "rejected", invoice_number |-> Unset]}

AuditWrites ==
    {[Idle EXCEPT !.kind = "update", !.delta = d] : d \in PaddedDeltas}
    \cup {[Idle EXCEPT !.kind = "create", !.job = FirstJob],
          [Idle EXCEPT !.kind = "delete"]}

SubmitAudit(r) ==
    /\ req[r].pc = "idle" /\ InOrder(r)
    /\ \E w \in AuditWrites, v \in Versions :
         req' = [req EXCEPT ![r] =
                   [w EXCEPT !.pc = "begin", !.user = LoginOf(r), !.ver = v]]
    /\ UNCHANGED <<store, active_connections, closed, inbox, returned, committed, cl, ws>>

NextAudit ==
    \/ \E r \in Reqs : SubmitAudit(r)
    \/ \E r \in Reqs : Serve(r)
    \/ \E s \in Sessions : WsConnect(s)

SpecAudit == Init /\ [][NextAudit]_vars

(***************************************************************************)
(* generate_unique_job_number on its own: any table of stored job numbers, *)
(* any requested number, one call.                                         *)
(***************************************************************************)
\* job numbers validate_job_number lets into the table
StoredNumbers ==
    {<<"7">>, <<"7", ".", "1">>, <<"7", ".", "2">>, <<"7", ".", "x">>,
     <<"7", ".", "9">>, <<"7", ".", "1", "0">>, <<"7", "1">>, <<"7", ".", "\\">>}

\* ShipmentCreate.job_number as requested
Requested ==
    {<<"7">>, <<"7", " ">>, <<"7", ".", "1">>, <<"7", ".", "\\">>, <<"7", "1">>, <<"8">>}

InitAlloc ==
    /\ shipments \in [Ids -> {NoRow} \cup {NewShipment(n, CreateStatus, 1) : n \in StoredNumbers}]
    /\ next_id = NumReq + 2
    /\ audit_logs = <<>>
    /\ active_connections = <<>>
    /\ closed = {}
    /\ inbox = [s \in Viewers |-> <<>>]
    /\ req = [r \in Reqs |-> Idle]
    /\ returned = [i \in Ids |-> 0]
    /\ committed = [i \in Ids |-> 0]
    /\ cl = [c \in Reqs |-> NoClient]
    /\ ws = [c \in Reqs |-> NoSocket]

SubmitAlloc(r) ==
    /\ \A q \in Reqs : req[q].pc = "idle"
    /\ \E j \in Requested :
         req' = [req EXCEPT ![r] =
                   [Idle EXCEPT !.pc = "begin", !.kind = "create", !.job = j]]
    /\ UNCHANGED <<store, active_connections, closed, inbox, returned, committed, cl, ws>>

\* unique_job_number = generate_unique_job_number(shipment.job_number, db)
Allocate(r) ==
    /\ req[r].pc = "begin" /\ req[r].kind = "create"
    /\ req' = [req EXCEPT ![r] =
                 [@ EXCEPT !.pc = "allocated",
                           !.cand = generate_unique_job_number(req[r].job, shipments)]]
    /\ UNCHANGED <<store, active_connections, closed, inbox, returned, committed, cl, ws>>

NextAlloc ==
    \/ \E r \in Reqs : SubmitAlloc(r)
    \/ \E r \in Reqs : Allocate(r)

SpecAlloc == InitAlloc /\ [][NextAlloc]_vars

(***************************************************************************)
(* The client's main window.  Client c sends its requests through slot c   *)
(* and blocks on each until the response is in.  shipment is the dict the  *)
(* table row holds for record 1.                                           *)
(***************************************************************************)
MaxEdits == 3

Clients == {1, 2}

\* the record on screen: the first one the store issued
Record == CHOOSE i \in Ids : \A j \in Ids : i <= j

\* edits started so far, over all clients
Edits == cl[1].edits + cl[2].edits

InvoiceEdits == {"INV-100", "INV-200", "INV#1"}
StatusEdits == {"final_release", "rejected"}

ClientIdle(shipment, edits) ==
    [pc |-> "idle", shipment |-> shipment, edits |-> edits, path |-> "", field |-> "",
     old_value |-> "", new_value |-> "", latest |-> NoRow, asked |-> FALSE,
     seen |-> 0, sent |-> 0, error |-> "", slot |-> 0, attempt |-> 0]

\* self.show_error(...): the message the user is shown
Failed(shipment, edits, message) ==
    [ClientIdle(shipment, edits) EXCEPT !.error = message]

\* GET /shipments answers ShipmentResponse, which has no version:
\* populate_table_row then sets shipment['version'] = 1
Loaded(row) ==
    [status |-> row.status, invoice_number |-> row.invoice_number, version |-> 1]

\* RobustApiClient.update_shipment_with_version(id, data, current_version)
update_shipment_with_version(c, data, current_version) ==
    [Idle EXCEPT !.pc = "begin", !.kind = "update", !.user = LoginOf(c),
                 !.id = Record, !.ver = current_version, !.delta = data]

\* the connection a request goes out on: the client's own, or the first free
SendSlot(c) ==
    IF req[c].pc = "idle" THEN c
    ELSE CHOOSE r \in Reqs : req[r].pc = "idle" /\ \A q \in Reqs : req[q].pc = "idle" => r <= q

\* RobustApiClient.get_shipment_by_id(id): the authoritative record
get_shipment_by_id(rows, id) == rows[id]

OneField(field, value) ==
    [f \in Fields |-> IF f = field THEN value ELSE Unset]

\* for key, value in latest_shipment.items(): if key in shipment [and key != field]
Adopt(shipment, latest, keep) ==
    [k \in DOMAIN shipment |-> IF k \in keep THEN shipment[k] ELSE latest[k]]

\* the version the client already held
HeldVersion(latest, current_version) == current_version

\* latest_version = int(latest_shipment.get('version', current_version))
RetryVersion(latest, current_version) == latest.version

\* update_local_data / update_ui_after_success: the response has no version
Saved(shipment, field, value) ==
    [shipment EXCEPT ![field] = value, !.version = @ + 1]

StartEdit(c, path, field, new_value) ==
    LET f == cl[c] IN
    /\ f.pc = "idle" /\ Edits < MaxEdits
    /\ \E r \in Reqs : req[r].pc = "idle"
    /\ new_value # f.shipment[field]
    /\ cl' = [cl EXCEPT ![c] =
                [f EXCEPT !.pc = "wait1", !.edits = @ + 1, !.path = path,
                          !.field = field, !.old_value = f.shipment[field],
                          !.new_value = new_value, !.sent = 1, !.error = "",
                          !.slot = SendSlot(c), !.attempt = 0]]
    /\ req' = [req EXCEPT ![SendSlot(c)] =
                 update_shipment_with_version(c, OneField(field, new_value),
                                              f.shipment.version)]
    /\ UNCHANGED <<store, active_connections, closed, inbox, returned, committed, ws>>

\* on_item_changed: an inline edit of the invoice_number cell
EditCell(c) == \E v \in InvoiceEdits : StartEdit(c, "cell", "invoice_number", v)

\* change_status: the status menu
ChangeStatus(c) == \E v \in StatusEdits : StartEdit(c, "status", "status", v)

\* the response to the first request
FirstResponse(c) ==
    LET f == cl[c] IN
    /\ f.pc = "wait1" /\ req[f.slot].pc = "done"
    /\ cl' = [cl EXCEPT ![c] =
                IF req[f.slot].code = 200
                THEN ClientIdle(Saved(f.shipment, f.field, f.new_value), f.edits)
                ELSE IF req[f.slot].code = 409
                THEN [f EXCEPT !.pc = "fetch"]
                ELSE Failed(f.shipment, f.edits, "Failed to save changes")]
    /\ req' = [req EXCEPT ![f.slot] = Idle]
    /\ UNCHANGED <<store, active_connections, closed, inbox, returned, committed, ws>>

\* the retry with the fetched version, the other fields adopted
Retry(c, f, latest, keep) ==
    /\ \E r \in Reqs : req[r].pc = "idle"
    /\ cl' = [cl EXCEPT ![c] =
                [f EXCEPT !.pc = "wait2", !.latest = latest, !.sent = @ + 1,
                          !.shipment = Adopt(@, latest, keep),
                          !.slot = SendSlot(c), !.attempt = 0]]
    /\ req' = [req EXCEPT ![SendSlot(c)] =
                 update_shipment_with_version(c, OneField(f.field, f.new_value),
                                              RetryVersion(latest, f.shipment.version))]

\* after a 409: fetch the latest record, then ask, or retry at once
Fetch(c) ==
    LET f == [cl[c] EXCEPT !.seen = committed[Record]]
        latest == get_shipment_by_id(shipments, Record)
    IN
    /\ cl[c].pc = "fetch"
    /\ IF latest = NoRow
       THEN /\ cl' = [cl EXCEPT ![c] =
                       Failed(f.shipment, f.edits, "Could not resolve version conflict")]
            /\ UNCHANGED req
       ELSE IF f.path = "cell" /\ latest[f.field] # f.old_value
       THEN /\ cl' = [cl EXCEPT ![c] = [f EXCEPT !.pc = "dialog", !.latest = latest]]
            /\ UNCHANGED req
       ELSE IF f.path = "cell" THEN Retry(c, f, latest, {f.field})
       ELSE Retry(c, f, latest, {})
    /\ UNCHANGED <<store, active_connections, closed, inbox, returned, committed, ws>>

\* "Field Conflict Detected": the human sees both values and answers
Answer(c) ==
    LET f == cl[c] IN
    /\ f.pc = "dialog"
    /\ \/ Retry(c, [f EXCEPT !.asked = TRUE], f.latest, {f.field})
       \/ /\ cl' = [cl EXCEPT ![c] =
                      ClientIdle(Adopt(f.shipment, f.latest, {}), f.edits)]
          /\ UNCHANGED req
    /\ UNCHANGED <<store, active_connections, closed, inbox, returned, committed, ws>>

\* a retry answered 409 resolved again
RetryAgain(f, code) ==
    IF code = 200 THEN ClientIdle(Saved(f.shipment, f.field, f.new_value), f.edits)
    ELSE IF code = 409 THEN [f EXCEPT !.pc = "fetch"]
    ELSE Failed(f.shipment, f.edits, "Failed to save after resolving conflict")

\* if retry_response.is_success(): ... else: revert, show_error, and no more
AfterRetry(f, code) ==
    IF code = 200 THEN ClientIdle(Saved(f.shipment, f.field, f.new_value), f.edits)
    ELSE Failed(f.shipment, f.edits, "Failed to save after resolving conflict")

\* the response to the retry; a second conflict is reported, not retried
RetryResponse(c) ==
    LET f == cl[c] IN
    /\ f.pc = "wait2" /\ req[f.slot].pc = "done"
    /\ cl' = [cl EXCEPT ![c] = AfterRetry(f, req[f.slot].code)]
    /\ req' = [req EXCEPT ![f.slot] = Idle]
    /\ UNCHANGED <<store, active_connections, closed, inbox, returned, committed, ws>>

\* load_shipments_async / on_shipments_loaded: a full reload
Reload(c) ==
    /\ cl[c].pc = "idle"
    /\ shipments[Record] # NoRow
    /\ cl[c].shipment # Loaded(shipments[Record])
    /\ cl' = [cl EXCEPT ![c] = ClientIdle(Loaded(shipments[Record]), cl[c].edits)]
    /\ UNCHANGED <<store, active_connections, closed, inbox, req, returned, committed, ws>>

InitClient ==
    /\ InitStore
    /\ active_connections = <<>>
    /\ closed = {}
    /\ inbox = [s \in Viewers |-> <<>>]
    /\ req = [r \in Reqs |-> Idle]
    /\ returned = [i \in Ids |-> 0]
    /\ committed = [i \in Ids |-> 0]
    /\ cl = [c \in Reqs |-> ClientIdle(Loaded(shipments[Record]), 0)]
    /\ ws = [c \in Reqs |-> NoSocket]

NextClient ==
    \/ \E c \in Clients : EditCell(c) \/ ChangeStatus(c)
    \/ \E c \in Clients : FirstResponse(c) \/ Fetch(c) \/ Answer(c) \/ RetryResponse(c)
    \/ \E c \in Clients : Reload(c)
    \/ \E r \in Clients : UpdateBegin(r) \/ UpdateCommit(r) \/ Refresh(r)

SpecClient == InitClient /\ [][NextClient]_vars

(***************************************************************************)
(* The transport below the window (RobustApiClient._make_request) with a   *)
(* server that may take longer than the request timeout.  One window is    *)
(* open; a request the transport has stopped waiting for is still served.  *)
(***************************************************************************)
max_retries == 3

Caller == Record

Waiting(c) == cl[c].pc \in {"wait1", "wait2"}

\* requests.exceptions.Timeout: no response within the timeout
TimedOut(c) ==
    /\ Waiting(c)
    /\ req[cl[c].slot].pc \notin {"idle", "done"}

\* except Timeout: if attempt < self.max_retries: sleep(1); continue
Timeout(c) ==
    LET f == cl[c]
        sent == req[f.slot]
    IN
    /\ TimedOut(c)
    /\ f.attempt < max_retries
    /\ \E r \in Reqs : req[r].pc = "idle"
    /\ cl' = [cl EXCEPT ![c] = [f EXCEPT !.attempt = @ + 1, !.slot = SendSlot(c)]]
    /\ req' = [req EXCEPT ![SendSlot(c)] =
                 update_shipment_with_version(c, sent.delta, sent.ver)]
    /\ UNCHANGED <<store, active_connections, closed, inbox, returned, committed, ws>>

\* the loop is over: ApiResponse(success=False, error="Request timeout after
\* multiple attempts"), which the window handles as any other failure
GiveUp(c) ==
    LET f == cl[c] IN
    /\ TimedOut(c)
    /\ f.attempt = max_retries
    /\ cl' = [cl EXCEPT ![c] =
                IF f.pc = "wait1"
                THEN Failed(f.shipment, f.edits, "Failed to save changes")
                ELSE Failed(f.shipment, f.edits, "Failed to save after resolving conflict")]
    /\ UNCHANGED <<store, active_connections, closed, inbox, req, returned, committed, ws>>

\* the response to a request nobody waits for any more
Discard(r) ==
    /\ req[r].pc = "done"
    /\ \A c \in Clients : Waiting(c) => cl[c].slot # r
    /\ req' = [req EXCEPT ![r] = Idle]
    /\ UNCHANGED <<store, active_connections, closed, inbox, returned, committed, cl, ws>>

NextTimeout ==
    \/ EditCell(Caller) \/ ChangeStatus(Caller)
    \/ FirstResponse(Caller) \/ Fetch(Caller) \/ Answer(Caller) \/ RetryResponse(Caller)
    \/ Timeout(Caller) \/ GiveUp(Caller)
    \/ \E r \in Reqs : UpdateBegin(r) \/ UpdateCommit(r) \/ Refresh(r)
    \/ \E r \in Reqs : Discard(r)

SpecTimeout == InitClient /\ [][NextTimeout]_vars

(***************************************************************************)
(* RobustApiClient._make_request on its own, against a server that cannot  *)
(* be reached or does not answer: every attempt ends in ConnectionError or *)
(* Timeout.  cl[c] is the call of client c.                                *)
(***************************************************************************)
Methods == {"GET", "POST", "PUT", "DELETE"}

Failures == {"ConnectionError", "Timeout"}

ApiResponse(success, error) == [success |-> success, error |-> error, status_code |-> 0]

NoCall ==
    [pc |-> "ready", method |-> "", attempt |-> 0, made |-> 0, last_exception |-> "",
     response |-> ApiResponse(TRUE, "")]

\* a response that says nothing
Silent(last_exception) == ApiResponse(FALSE, "")

\* after the loop: the ApiResponse built from last_exception
Exhausted(last_exception) ==
    IF last_exception = "ConnectionError"
    THEN ApiResponse(FALSE, "Unable to connect to server after multiple attempts")
    ELSE IF last_exception = "Timeout"
    THEN ApiResponse(FALSE, "Request timeout after multiple attempts")
    ELSE ApiResponse(FALSE, "Max retries exceeded")

InitRetry ==
    /\ InitStore
    /\ active_connections = <<>>
    /\ closed = {}
    /\ inbox = [s \in Viewers |-> <<>>]
    /\ req = [r \in Reqs |-> Idle]
    /\ returned = [i \in Ids |-> 0]
    /\ committed = [i \in Ids |-> 0]
    /\ cl = [c \in Reqs |-> NoCall]
    /\ ws = [c \in Reqs |-> NoSocket]

\* _make_request(method, endpoint): last_exception = None, the loop begins
MakeRequest(c) ==
    /\ cl[c].pc = "ready"
    /\ \E m \in Methods :
         cl' = [cl EXCEPT ![c] = [NoCall EXCEPT !.pc = "try", !.method = m]]
    /\ UNCHANGED <<store, active_connections, closed, inbox, req, returned, committed, ws>>

\* one pass of for attempt in range(self.max_retries + 1): session.request
\* raises; the except clause continues, or the loop is over and the call returns
Attempt(c) ==
    LET f == cl[c] IN
    /\ f.pc = "try"
    /\ \E e \in Failures :
         cl' = [cl EXCEPT ![c] =
                  IF f.attempt < max_retries
                  THEN [f EXCEPT !.made = @ + 1, !.last_exception = e, !.attempt = @ + 1]
                  ELSE [f EXCEPT !.made = @ + 1, !.last_exception = e,
                                 !.pc = "returned", !.response = Exhausted(e)]]
    /\ UNCHANGED <<store, active_connections, closed, inbox, req, returned, committed, ws>>

NextRetry ==
    \/ \E c \in Reqs : MakeRequest(c)
    \/ \E c \in Reqs : Attempt(c)

SpecRetry == InitRetry /\ [][NextRetry]_vars

(***************************************************************************)
(* Properties of the server's store, checked under Spec.                   *)
(***************************************************************************)
\* an update request that committed its changes and returned success
Accepted(r) ==
    /\ req[r].kind = "update"
    /\ req[r].pc = "done"
    /\ req[r].code = 200
    /\ req[r].changes # {}

\* C1: of two update requests for the same record that carry the same
\* expected version, at most one is accepted: in no interleaving do both
\* commit their changes and return success.
C1_OneAccepted ==
    \A r1, r2 \in Reqs :
        (r1 # r2 /\ Accepted(r1) /\ Accepted(r2) /\ req[r1].id = req[r2].id)
            => req[r1].ver # req[r2].ver

\* C2: a record's version is 1 plus the number of update requests that
\* changed it and returned success (read while no update of the record is
\* between its commit and its response).
C2_VersionCountsUpdates ==
    \A i \in Ids :
        (/\ shipments[i] # NoRow
         /\ \A r \in Reqs : ~(/\ req[r].kind = "update"
                               /\ req[r].id = i
                               /\ req[r].pc \in {"refresh", "send"}))
            => shipments[i].version = 1 + returned[i]

\* C3: a step changes a stored record only when it is the commit of an
\* update request whose expected version equals the record's version at
\* that commit.
C3_WriteAtExpectedVersion ==
    [][\A i \in Ids :
          (/\ shipments[i] # NoRow
           /\ shipments'[i] # NoRow
           /\ shipments'[i] # shipments[i])
              => \E r \in Reqs :
                    /\ req[r].kind = "update"
                    /\ req[r].id = i
                    /\ req[r].pc = "commit"
                    /\ req'[r].pc = "refresh"
                    /\ req[r].ver = shipments[i].version]_vars

\* an update request about to run whose expected version is not the stored one
Stale(r) ==
    /\ req[r].kind = "update"
    /\ req[r].pc = "begin"
    /\ CanWrite(req[r].user)
    /\ shipments[req[r].id] # NoRow
    /\ shipments[req[r].id].version # req[r].ver

\* C4: an update request whose expected version differs from the stored
\* version is answered 409 Conflict by the step that runs it, and that step
\* leaves the records, the audit log, the viewers' inboxes and the
\* connection list as they were: nothing written, no audit entry, no event.
C4_ConflictChangesNothing ==
    [][\A r \in Reqs :
          (Stale(r) /\ req'[r] # req[r])
              => /\ req'[r].pc = "done"
                 /\ req'[r].code = 409
                 /\ req'[r].logged = 0
                 /\ ~req'[r].changed
                 /\ UNCHANGED <<shipments, next_id, audit_logs, inbox,
                                active_connections>>]_vars

\* a request that came with version 1 after the record had moved on was
\* answered 409, while a viewer is connected to hear of any event
C4_Witness ==
    \E r \in Reqs :
        /\ req[r].kind = "update"
        /\ req[r].pc = "done"
        /\ req[r].code = 409
        /\ shipments[req[r].id] # NoRow
        /\ shipments[req[r].id].version > req[r].ver
        /\ active_connections # <<>>

\* a create request that returned success
Created(r) ==
    /\ req[r].kind = "create"
    /\ req[r].pc = "done"
    /\ req[r].code = 200

\* C7: creation requests that ask for the same job number (sent without
\* surrounding blanks) and succeed are stored under distinct job numbers.
C7_CreatesDistinct ==
    \A r1, r2 \in Reqs :
        (/\ r1 # r2
         /\ Created(r1) /\ Created(r2)
         /\ req[r1].job = req[r2].job
         /\ strip(req[r1].job) = req[r1].job
         /\ shipments[req[r1].id] # NoRow
         /\ shipments[req[r2].id] # NoRow)
            => shipments[req[r1].id].job_number # shipments[req[r2].id].job_number

\* C8: no two stored records have the same job number.
C8_JobNumbersUnique ==
    \A i, j \in StoredIds(shipments) :
        i # j => shipments[i].job_number # shipments[j].job_number

HasAudit(i, action) ==
    \E k \in DOMAIN audit_logs :
        audit_logs[k].action = action /\ audit_logs[k].record_id = i

\* C9: in every state the committed records and the committed audit log
\* agree: a stored record has its create entry, a record that was created
\* and is gone has its delete entry, and a delete entry names a record that
\* is gone.
C9_MutationWithAudit ==
    \A i \in Ids :
        /\ shipments[i] # NoRow => HasAudit(i, "create")
        /\ (shipments[i] = NoRow /\ HasAudit(i, "create")) => HasAudit(i, "delete")
        /\ HasAudit(i, "delete") => shipments[i] = NoRow

\* C10: a request that returned success having changed the records
\* inserted exactly one audit entry; a request that failed or changed
\* nothing inserted none.
C10_OneEntryPerChange ==
    \A r \in Reqs :
        req[r].pc = "done" =>
            IF req[r].code = 200 /\ req[r].changed
            THEN req[r].logged = 1
            ELSE req[r].logged = 0

\* C14: the commit of an accepted update raises the record's version by
\* exactly 1, sets last_modified_by to the acting user, and leaves
\* job_number, created_by, every field its delta does not name and every
\* other record as they were.
C14_UpdateFrame ==
    [][\A r \in Reqs :
          (req[r].kind = "update" /\ req[r].pc = "commit" /\ req'[r].pc = "refresh")
              => LET old == shipments[req[r].id]
                     new == shipments'[req[r].id]
                 IN
                 /\ new.version = old.version + 1
                 /\ new.last_modified_by = req[r].user
                 /\ new.job_number = old.job_number
                 /\ new.created_by = old.created_by
                 /\ \A g \in Fields \ Named(req[r].delta) : new[g] = old[g]
                 /\ \A i \in Ids \ {req[r].id} : shipments'[i] = shipments[i]]_vars

C16_ConflictCarriesRecord ==
    [][\A r \in Reqs :
          (/\ req[r].kind = "update" /\ req[r].pc = "begin"
           /\ req'[r].pc = "done" /\ req'[r].code = 409)
              => LET row == shipments[req[r].id]
                     body == req'[r].body
                 IN \A k \in DOMAIN row : k \in DOMAIN body /\ body[k] = row[k]]_vars

\* C18: a create request that ended in failure has left no record, no audit
\* entry and no shipment_created event.
C18_FailedCreateLeavesNothing ==
    \A r \in Reqs :
        (req[r].kind = "create" /\ req[r].pc = "done" /\ req[r].code # 200)
            => /\ req[r].changed => shipments[req[r].id] = NoRow
               /\ req[r].seq = 0
               /\ ~\E s \in Viewers : \E i \in 1..Len(inbox[s]) :
                      /\ inbox[s][i].seq = req[r].seq
                      /\ inbox[s][i].msg.type = "shipment_created"

\* a request of a writer that carries a value its column validator refuses;
\* for an update, one that found its record at the version it sent
Malformed(f) ==
    \/ f.kind = "create" /\ ~validate_job_number(f.job).ok
    \/ /\ f.kind = "update"
       /\ shipments[f.id] # NoRow
       /\ VersionFilter(shipments[f.id], f.ver)
       /\ \E c \in Named(f.delta) : ~validate(c, f.delta[c]).ok

\* C21: a create or update carrying a malformed value is answered 400, which
\* no storage or internal failure is answered with, and the step that answers
\* it changes no record, no audit entry and no viewer's inbox.
C21_ValidationError ==
    [][\A r \in Reqs :
          (/\ req[r].pc = "begin" /\ CanWrite(req[r].user)
           /\ Malformed(req[r]) /\ req'[r] # req[r])
              => /\ req'[r].pc = "done" /\ req'[r].code = 400
                 /\ UNCHANGED <<store, inbox>>]_vars

\* C23: every step leaves the entries already in the audit log as they are,
\* in place, and adds at most one entry at the end.
C23_AuditAppendOnly ==
    [][/\ Len(audit_logs') \in {Len(audit_logs), Len(audit_logs) + 1}
       /\ SubSeq(audit_logs', 1, Len(audit_logs)) = audit_logs]_vars

\* the log holds the create entry of record 1, an update entry and the delete
\* entry of the same record
C23_Witness ==
    /\ Len(audit_logs) = 3
    /\ \A k \in 1..3 : audit_logs[k].record_id = Record
    /\ audit_logs[2].action = "update"
    /\ audit_logs[3].action = "delete"

\* C24: on one session, the shipment_updated events of one record arrive in
\* version order: none arrives after an event of the same record that carries
\* a greater version.
C24_VersionsInOrder ==
    \A s \in Sessions :
        \A i, j \in DOMAIN inbox[s] :
            (/\ i < j
             /\ inbox[s][i].msg.type = "shipment_updated"
             /\ inbox[s][j].msg.type = "shipment_updated"
             /\ inbox[s][i].msg.id = inbox[s][j].msg.id)
                => inbox[s][i].msg.version <= inbox[s][j].msg.version

(***************************************************************************)
(* Properties of the client's conflict resolution, checked under           *)
(* SpecClient.                                                             *)
(***************************************************************************)
\* client c's retry after a conflict has been answered
Retried(c) == cl[c].pc = "wait2" /\ req[c].pc = "done"

\* C5: a client's retry overwrites a field that another actor changed since
\* the client's last-known value only after its human was shown both values
\* and approved, on every edit path.
C5_AskBeforeOverwrite ==
    \A c \in Clients :
        (/\ Retried(c)
         /\ req[c].code = 200
         /\ req[c].changed
         /\ cl[c].latest[cl[c].field] # cl[c].old_value)
            => cl[c].asked

\* client c retries an inline edit whose field the fetched record still
\* holds at the client's last-known value
Merging(c) ==
    /\ cl[c].pc = "wait2"
    /\ cl[c].path = "cell"
    /\ cl[c].latest[cl[c].field] = cl[c].old_value

C11_EventsInCommitOrder ==
    \A s \in Viewers :
        \A i, j \in DOMAIN inbox[s] :
            /\ i # j => inbox[s][i].seq # inbox[s][j].seq
            /\ (/\ i < j
                /\ inbox[s][j].msg.type = "shipment_updated"
                /\ inbox[s][i].msg.type # "shipment_deleted"
                /\ inbox[s][i].msg.id # inbox[s][j].msg.id)
                   => inbox[s][i].seq < inbox[s][j].seq

\* the messages of request r that reached a channel
Delivered(r) ==
    {<<s, k>> \in Viewers \X (1..NumReq) :
        k \in DOMAIN inbox[s] /\ inbox[s][k].seq = req[r].seq}

\* message m tells of the mutation that audit entry a records
Tells(m, a) ==
    /\ a.record_id = m.id
    /\ a.action = (CASE m.type = "shipment_created" -> "create"
                     [] m.type = "shipment_updated" -> "update"
                     [] OTHER -> "delete")

\* the role of the request's user is neither write nor admin
Refused(f) == f.pc # "idle" /\ role[f.user] \notin {"write", "admin"}

\* C30: a create, update or delete request of a user whose role is neither
\* write nor admin is answered 403 in its first step, and that step leaves
\* the records, the audit log and every channel as they are; while no other
\* request has been made, the store is as it was at the start and no
\* channel holds a message.
C30_ReaderRefused ==
    /\ []((\A r \in Reqs : req[r].pc = "idle" \/ Refused(req[r]))
             => /\ shipments[Record] = NewShipment(FirstJob, CreateStatus, 1)
                /\ \A i \in Ids \ {Record} : shipments[i] = NoRow
                /\ next_id = Record + 1
                /\ Len(audit_logs) = 1
                /\ \A s \in Viewers : inbox[s] = <<>>)
    /\ [][\A r \in Reqs :
            (Refused(req[r]) /\ req'[r] # req[r])
                => /\ req[r].pc = "begin"
                   /\ req'[r].pc = "done" /\ req'[r].code = 403
                   /\ ~req'[r].changed /\ req'[r].todo = <<>>
                   /\ UNCHANGED <<store, inbox, committed>>]_vars

\* every slot has carried a request of the reader, one of them an update
\* and one a delete, and all have been answered
C30_Witness ==
    /\ \A r \in Reqs : req[r].pc = "done" /\ req[r].user = Reader /\ req[r].code = 403
    /\ \E r \in Reqs : req[r].kind = "update"
    /\ \E r \in Reqs : req[r].kind = "delete"

\* C12: a message is written to a channel only for a mutation whose
\* transaction committed (its audit entry is in the log), never for a request
\* that ended in 404, 409, 400 or 500; and a step of a broadcast, a failing
\* write included, leaves the store as it is and ends the request, if it
\* ends it, with success.
C12_BroadcastAfterCommit ==
    /\ [](/\ \A s \in Viewers : \A k \in DOMAIN inbox[s] :
               /\ inbox[s][k].seq \in DOMAIN audit_logs
               /\ Tells(inbox[s][k].msg, audit_logs[inbox[s][k].seq])
          /\ \A r \in Reqs :
               /\ req[r].pc = "send" => req[r].seq \in DOMAIN audit_logs
               /\ (req[r].pc = "done" /\ req[r].code # 200) => Delivered(r) = {})
    /\ [][\A r \in Reqs :
            (req[r].pc = "send" /\ req'[r] # req[r])
                => /\ UNCHANGED store
                   /\ req'[r].pc \in {"send", "done"}
                   /\ req'[r].pc = "done" => req'[r].code = 200]_vars

\* a request whose broadcast lost one viewer and reached the other has
\* returned success, its record stored as it committed it
C12_Witness ==
    \E r \in Reqs :
        /\ req[r].pc = "done" /\ req[r].code = 200 /\ req[r].kind = "update"
        /\ \A r2 \in Reqs \ {r} : req[r2].seq = 0
        /\ Delivered(r) # {}
        /\ \E s \in closed : inbox[s] = <<>>
        /\ shipments[req[r].id] = req[r].pending

LargestSuffix(base, stored) ==
    Max({0} \cup {int(SubSeq(n, Len(base) + 2, Len(n))) :
                    n \in {k \in stored :
                             /\ Len(k) > Len(base) + 1
                             /\ SubSeq(k, 1, Len(base) + 1) = base \o <<".">>
                             /\ isdigit(SubSeq(k, Len(base) + 2, Len(k)))}})

\* C17: the allocator returns the requested number when no stored record has
\* exactly that number, and otherwise the requested number, a dot and one more
\* than the largest stored suffix; either way the result is no stored number.
C17_AllocatorResult ==
    \A r \in Reqs :
        req[r].pc = "allocated"
            => LET requested == req[r].job
                   stored == JobNumbers(shipments)
                   result == req[r].cand
               IN /\ requested \notin stored => result = requested
                  /\ requested \in stored
                        => result = requested \o <<".">>
                                       \o str(LargestSuffix(requested, stored) + 1)
                  /\ result \notin stored

\* C29: when a window has just completed a full reload, the version it
\* holds for the record is the record's version in the store.
C29_ReloadedVersionIsStored ==
    [][\A c \in Clients :
          (cl[c].pc = "idle" /\ cl'[c].pc = "idle" /\ cl'[c].shipment # cl[c].shipment)
              => cl'[c].shipment.version = shipments'[Record].version]_vars

(***************************************************************************)
(* Properties of the transport, checked under SpecTimeout.                 *)
(***************************************************************************)
\* C20: when the client stops waiting for the answer to an update that the
\* server has not answered, it does not report the write as failed and, in
\* that step, sends no update request: the next thing it does is a fetch.
C20_NoBlindResend ==
    [][\A c \in Clients :
          (TimedOut(c) /\ cl'[c] # cl[c])
              => /\ cl'[c].error = ""
                 /\ req' = req]_vars

(***************************************************************************)
(* Properties of the audit log, checked under SpecAudit.                   *)
(***************************************************************************)
\* C22: the audit entry an update commits lists exactly the fields whose
\* stored value the commit changes, each with the stored value before and
\* after; the snapshot a delete logs equals the record it deletes.
C22_AuditMatchesStore ==
    [][\A r \in Reqs :
          /\ (req[r].kind = "update" /\ req[r].pc = "commit" /\ req'[r].pc = "refresh")
                => LET old == shipments[req[r].id]
                       new == shipments'[req[r].id]
                       entry == audit_logs'[Len(audit_logs')]
                   IN /\ {c.field : c \in entry.changes} = {f \in Fields : old[f] # new[f]}
                      /\ \A c \in entry.changes :
                            c.old = old[c.field] /\ c.new = new[c.field]
          /\ (req[r].pc = "delrow" /\ req'[r].pc = "delaudit" /\ shipments[req[r].id] # NoRow)
                => Backup(req[r].loaded) = Backup(shipments[req[r].id])]_vars

(***************************************************************************)
(* Properties of the transport's retry loop, checked under SpecRetry.      *)
(***************************************************************************)
\* C25: a call whose attempts all fail has made at most max_retries + 1 of
\* them; while it is still trying it has made at most max_retries, and once
\* it has returned its response has success false and a non-empty error.
C25_BoundedAttempts ==
    \A c \in Reqs :
        /\ cl[c].made <= max_retries + 1
        /\ cl[c].pc = "try" => cl[c].made <= max_retries
        /\ cl[c].pc = "returned"
              => /\ cl[c].made = max_retries + 1
                 /\ ~cl[c].response.success
                 /\ cl[c].response.error # ""

\* a call has returned after its last attempt timed out
C25_Witness ==
    \E c \in Reqs :
        /\ cl[c].pc = "returned"
        /\ cl[c].last_exception = "Timeout"
        /\ cl[c].made = max_retries + 1

(***************************************************************************)
(* The windows as viewers.  Each window's WebSocketClient thread holds one *)
(* channel to /ws; what the channel delivers waits in the window's event   *)
(* queue, and the GUI thread takes it up between the window's own calls.   *)
(* Beside the two windows a caller of the API creates and deletes a second *)
(* record; the windows make one edit fewer than MaxEdits.                  *)
(***************************************************************************)
\* self.user_info.get("username")
username(c) == LoginOf(c)

ChangeEvents == {"shipment_created", "shipment_updated", "shipment_deleted"}

\* a reload for every change event, the window's own included
EveryEvent(msg, c) == msg.type \in ChangeEvents

\* if msg_type != "shipment_updated" or action_by != self.user_info.get("username")
StartsReload(msg, c) ==
    /\ msg.type \in ChangeEvents
    /\ msg.type # "shipment_updated" \/ msg.action_by # username(c)

\* load_shipments_async: a running loader is stopped and a new one started
load_shipments_async(w) == [w EXCEPT !.loader = "running"]

\* update_connection_status(connected): the indicator and its label
update_connection_status(w, connected) == [w EXCEPT !.connected = connected]

\* WebSocketClient.run: run_forever opens a socket; on_open emits
\* connection_status(True), and the server appends the socket to its list
on_open(c) ==
    /\ ~ws[c].connected /\ ~InList(active_connections, c)
    /\ ws' = [ws EXCEPT ![c] = update_connection_status(@, TRUE)]
    /\ active_connections' = connect(active_connections, c)
    /\ closed' = closed \ {c}
    /\ UNCHANGED <<store, inbox, req, returned, committed, cl>>

\* the channel is lost: on_close / on_error emit connection_status(False),
\* and the server's receive loop ends in manager.disconnect
on_close(c) ==
    /\ ws[c].connected
    /\ ws' = [ws EXCEPT ![c] = update_connection_status(@, FALSE)]
    /\ active_connections' = disconnect(active_connections, c)
    /\ closed' = closed \cup {c}
    /\ UNCHANGED <<store, inbox, req, returned, committed, cl>>

\* handle_websocket_message(message): the oldest message in the queue
handle_websocket_message(c) ==
    /\ cl[c].pc = "idle" /\ inbox[c] # <<>>
    /\ ws' = [ws EXCEPT ![c] =
                IF StartsReload(Head(inbox[c]).msg, c)
                THEN [load_shipments_async(ws[c]) EXCEPT !.last = "reloaded"]
                ELSE [ws[c] EXCEPT !.last = "skipped"]]
    /\ inbox' = [inbox EXCEPT ![c] = Tail(@)]
    /\ UNCHANGED <<store, active_connections, closed, req, returned, committed, cl>>

\* ShipmentLoader.run, then on_shipments_loaded: self.shipments is replaced
on_shipments_loaded(c) ==
    /\ cl[c].pc = "idle" /\ ws[c].loader = "running"
    /\ cl' = [cl EXCEPT ![c] = ClientIdle(Loaded(shipments[Record]), cl[c].edits)]
    /\ ws' = [ws EXCEPT ![c].loader = "idle"]
    /\ UNCHANGED <<store, active_connections, closed, inbox, req, returned, committed>>

\* no request of the other caller is in flight
Quiet == \A q \in Reqs : req[q].kind \notin {"create", "delete"}

\* the other caller, while the windows are at rest: one create, and the
\* delete of the record it created
SubmitOther(r) ==
    /\ Quiet /\ req[r].pc = "idle" /\ \A c \in Clients : cl[c].pc = "idle"
    /\ \/ /\ next_id = Record + 1
          /\ req' = [req EXCEPT ![r] = [Idle EXCEPT !.pc = "begin", !.kind = "create",
                                                    !.user = LoginOf(r), !.job = FirstJob]]
       \/ /\ shipments[Record + 1] # NoRow
          /\ req' = [req EXCEPT ![r] = [Idle EXCEPT !.pc = "begin", !.kind = "delete",
                                                    !.user = LoginOf(r), !.id = Record + 1]]
    /\ UNCHANGED <<store, active_connections, closed, inbox, returned, committed, cl, ws>>

\* the other caller reads its response
OtherResponse(r) ==
    /\ ~Quiet /\ req[r].pc = "done"
    /\ req' = [req EXCEPT ![r] = Idle]
    /\ UNCHANGED <<store, active_connections, closed, inbox, returned, committed, cl, ws>>

\* the window whose channel is followed
Viewer == Record

NextViewer ==
    \/ \E c \in Clients : Quiet /\ Edits + 1 < MaxEdits /\ ChangeStatus(c)
    \/ \E c \in Clients : FirstResponse(c) \/ Fetch(c) \/ RetryResponse(c)
    \/ \E c \in {Viewer} : on_open(c) \/ on_close(c)
    \/ \E c \in {Viewer} : handle_websocket_message(c) \/ on_shipments_loaded(c)
    \/ \E r \in {Viewer} : SubmitOther(r) \/ OtherResponse(r)
    \/ \E r \in Clients : UpdateBegin(r) \/ UpdateCommit(r) \/ Refresh(r) \/ BroadcastSend(r)
    \/ \E r \in {Viewer} : CreateBegin(r) \/ CreateCommit(r)
    \/ \E r \in {Viewer} : DeleteBegin(r) \/ DeleteRow(r) \/ DeleteAudit(r)

SpecViewer == InitClient /\ [][NextViewer]_vars

(***************************************************************************)
(* Properties of the windows as viewers, checked under SpecViewer.         *)
(***************************************************************************)
\* the change event the window takes from its queue in this step
Handles(c) == inbox[c] # <<>> /\ inbox'[c] = Tail(inbox[c])

\* an updated event whose actor is the window's own user
OwnUpdate(msg, c) == msg.type = "shipment_updated" /\ msg.action_by = username(c)

\* C26: a window that handles a change event starts a full reload when the
\* event is created or deleted, or is updated by another actor; for an
\* updated event of its own actor it starts none and leaves its data alone.
C26_ReloadUnlessOwnUpdate ==
    [][\A c \in Clients :
          Handles(c)
              => IF OwnUpdate(Head(inbox[c]).msg, c)
                 THEN ws'[c].loader = ws[c].loader /\ cl' = cl
                 ELSE ws'[c].loader = "running"]_vars

\* the viewer has skipped an update of its own while the reload that an
\* earlier event started is still running
C26_Witness ==
    /\ ws[Viewer].last = "skipped"
    /\ ws[Viewer].loader = "running"

\* C27: after a window has handled an updated event of its own actor, the
\* version it holds for the record is at least the version in the event.
C27_OwnEventVersionMerged ==
    [][\A c \in Clients :
          (Handles(c) /\ OwnUpdate(Head(inbox[c]).msg, c))
              => cl'[c].shipment.version >= Head(inbox[c]).msg.version]_vars

\* C28: the step in which a window's channel, lost before, is open again
\* starts a full reload.
C28_ReloadOnReconnect ==
    [][\A c \in Clients :
          (c \in closed /\ ~ws[c].connected /\ ws'[c].connected)
              => ws'[c].loader = "running"]_vars

====
